---- MODULE Spec2Model ----
(***************************************************************************)
(* Model of build_posts.py: the frontmatter parser, the slug deriver and   *)
(* the build_posts batch run.  Strings are sequences of one-character      *)
(* strings, so that startswith, the regular expression, split, strip and   *)
(* replace are computed character by character as Python computes them.    *)
(***************************************************************************)
EXTENDS Integers, Sequences, FiniteSets, TLC

VARIABLES
    \* one call of parse_frontmatter
    content, p_pc, matched, frontmatter_text, metadata, body,
    \* one call of get_slug_from_filename
    filename, s_pc, slug,
    \* one run of build_posts
    posts_dir, pc, queue, idx, cur, local, posts_list, output_dir,
    posts_json, stdout, opened, written, json_writes, cause, ret

parse_vars == <<content, p_pc, matched, frontmatter_text, metadata, body>>
slug_vars == <<filename, s_pc, slug>>
build_vars == <<posts_dir, pc, queue, idx, cur, local, posts_list, output_dir,
                posts_json, stdout, opened, written, json_writes, cause, ret>>
vars == <<parse_vars, slug_vars, build_vars>>

----------------------------------------------------------------------------
(* Bounds of the input spaces *)

MaxLines == 5
MaxParts == 5
MaxFiles == 3

----------------------------------------------------------------------------
(* Python str primitives on character sequences *)

NL == "\n"
COLON == ":"
HYPHEN == "-"
Whitespace == {" ", "\t", "\n", "\r"}

Range(s) == {s[i] : i \in 1..Len(s)}

Min(S) == CHOOSE x \in S : \A y \in S : x <= y
Max(S) == CHOOSE x \in S : \A y \in S : x >= y

Drop(s, n) == SubSeq(s, n + 1, Len(s))

\* s[i:i+len(p)] == p
StartsWithAt(s, p, i) ==
    /\ i + Len(p) - 1 <= Len(s)
    /\ SubSeq(s, i, i + Len(p) - 1) = p

startswith(s, p) == StartsWithAt(s, p, 1)

endswith(s, p) == Len(p) <= Len(s) /\ StartsWithAt(s, p, Len(s) - Len(p) + 1)

\* index of the first occurrence of character c in s, 0 when absent
IndexOf(s, c) ==
    IF c \in Range(s) THEN Min({i \in 1..Len(s) : s[i] = c}) ELSE 0

\* str.split(c, maxsplit); maxsplit = -1 is unlimited
RECURSIVE split(_, _, _)
split(s, c, maxsplit) ==
    IF maxsplit = 0 \/ IndexOf(s, c) = 0
    THEN <<s>>
    ELSE LET i == IndexOf(s, c)
         IN <<SubSeq(s, 1, i - 1)>> \o split(Drop(s, i), c, maxsplit - 1)

\* c.join(parts)
RECURSIVE join(_, _)
join(c, parts) ==
    IF Len(parts) = 0 THEN <<>>
    ELSE IF Len(parts) = 1 THEN parts[1]
    ELSE parts[1] \o <<c>> \o join(c, Tail(parts))

RECURSIVE lstrip(_)
lstrip(s) ==
    IF Len(s) > 0 /\ s[1] \in Whitespace THEN lstrip(Tail(s)) ELSE s

RECURSIVE rstrip(_)
rstrip(s) ==
    IF Len(s) > 0 /\ s[Len(s)] \in Whitespace
    THEN rstrip(SubSeq(s, 1, Len(s) - 1)) ELSE s

strip(s) == rstrip(lstrip(s))

\* str.replace(old, ''): left to right, non-overlapping, the result is not
\* scanned again
RECURSIVE replace_with_empty(_, _)
replace_with_empty(s, old) ==
    IF Len(s) = 0 THEN <<>>
    ELSE IF startswith(s, old) THEN replace_with_empty(Drop(s, Len(old)), old)
    ELSE <<s[1]>> \o replace_with_empty(Tail(s), old)

\* dict
EmptyDict == [k \in {} |-> <<>>]

DictSet(d, key, value) ==
    [k \in (DOMAIN d) \cup {key} |-> IF k = key THEN value ELSE d[k]]

\* the mutation of dict.get that ignores the stored value
DictGetDefaultOnly(d, key, default) == default

\* dict.get(key, default)
DictGet(d, key, default) == IF key \in DOMAIN d THEN d[key] ELSE default

----------------------------------------------------------------------------
(* parse_frontmatter *)

DELIM == <<"-", "-", "-">>
OPEN_PATTERN == <<"-", "-", "-", "\n">>
CLOSE_PATTERN == <<"\n", "-", "-", "-", "\n">>
\* a closing pattern that forgets the newline after the second delimiter
CLOSE_PATTERN_OPEN_END == <<"\n", "-", "-", "-">>

NoMatch == [ok |-> FALSE, group1 |-> <<>>, group2 |-> <<>>]

\* the match of a pattern  ^---\n(.*?)<close>(.*)  under re.DOTALL: the lazy
\* group stops at the first place where <close> matches, the greedy group
\* takes the rest
MatchWithClose(s, close) ==
    IF ~startswith(s, OPEN_PATTERN) THEN NoMatch
    ELSE LET from == Len(OPEN_PATTERN) + 1
             ends == {i \in from..Len(s) : StartsWithAt(s, close, i)}
         IN IF ends = {} THEN NoMatch
            ELSE LET i == Min(ends)
                 IN [ok |-> TRUE,
                     group1 |-> SubSeq(s, from, i - 1),
                     group2 |-> Drop(s, i + Len(close) - 1)]

re_match_open_end(s) == MatchWithClose(s, CLOSE_PATTERN_OPEN_END)

\* re.match(r'^---\n(.*?)\n---\n(.*)', content, re.DOTALL)
re_match(s) == MatchWithClose(s, CLOSE_PATTERN)

\* key, value = line.split(':', 1) raises unless there are two parts
Unpacks(line) == Len(split(line, COLON, 1)) = 2

\* the loop over frontmatter_text.split('\n'), from line i on
RECURSIVE parse_lines(_, _, _)
parse_lines(lines, i, md) ==
    IF i > Len(lines) THEN md
    ELSE IF COLON \in Range(lines[i])
         THEN LET kv == split(lines[i], COLON, 1)
              IN parse_lines(lines, i + 1, DictSet(md, strip(kv[1]), strip(kv[2])))
         ELSE parse_lines(lines, i + 1, md)

\* whether the loop raises on some line
LoopRaises(lines) ==
    \E i \in 1..Len(lines) : COLON \in Range(lines[i]) /\ ~Unpacks(lines[i])

\* the value parse_frontmatter returns, with the locals of the matched path
parse_frontmatter(c) ==
    IF ~startswith(c, DELIM)
    THEN [matched |-> FALSE, frontmatter_text |-> <<>>, raised |-> FALSE,
          metadata |-> EmptyDict, body |-> c]
    ELSE LET m == re_match(c)
         IN IF ~m.ok
            THEN [matched |-> FALSE, frontmatter_text |-> <<>>, raised |-> FALSE,
                  metadata |-> EmptyDict, body |-> c]
            ELSE LET lines == split(m.group1, NL, -1)
                 IN [matched |-> TRUE, frontmatter_text |-> m.group1,
                     raised |-> LoopRaises(lines),
                     metadata |-> parse_lines(lines, 1, EmptyDict),
                     body |-> m.group2]

----------------------------------------------------------------------------
(* Inputs of parse_frontmatter: every text of at most MaxLines lines taken  *)
(* from LinePool, the lines joined by newlines (a last empty line is a      *)
(* trailing newline)                                                        *)

L_empty == <<>>
L_kv == <<"k", ":", " ", "v">>
L_kab == <<" ", "k", " ", ":", "a", ":", "b", " ">>
L_x == <<"x">>
L_delimx == <<"-", "-", "-", "x">>

LinePool == {DELIM, L_empty, L_kv, L_kab, L_x, L_delimx}

SeqsUpTo(S, n) == UNION {[1..k -> S] : k \in 1..n}

Contents == {join(NL, ls) : ls \in SeqsUpTo(LinePool, MaxLines)}

ParseIdle ==
    /\ content = <<>>
    /\ p_pc = "idle"
    /\ matched = FALSE
    /\ frontmatter_text = <<>>
    /\ metadata = EmptyDict
    /\ body = <<>>

ParseInit ==
    /\ content \in Contents
    /\ p_pc = "call"
    /\ matched = FALSE
    /\ frontmatter_text = <<>>
    /\ metadata = EmptyDict
    /\ body = <<>>

\* lines 15-21: one of the two early returns
ParseEarlyReturn ==
    /\ p_pc = "call"
    /\ ~parse_frontmatter(content).matched
    /\ LET r == parse_frontmatter(content)
       IN /\ matched' = r.matched
          /\ frontmatter_text' = r.frontmatter_text
          /\ metadata' = r.metadata
          /\ body' = r.body
    /\ p_pc' = "returned"
    /\ UNCHANGED <<content, slug_vars, build_vars>>

\* lines 23-33: the regular expression matched
ParseMatched ==
    /\ p_pc = "call"
    /\ parse_frontmatter(content).matched
    /\ LET r == parse_frontmatter(content)
       IN /\ matched' = r.matched
          /\ frontmatter_text' = r.frontmatter_text
          /\ metadata' = r.metadata
          /\ body' = r.body
          /\ p_pc' = IF r.raised THEN "raised" ELSE "returned"
    /\ UNCHANGED <<content, slug_vars, build_vars>>

----------------------------------------------------------------------------
(* get_slug_from_filename *)

MD_SUFFIX == <<".", "m", "d">>

\* the mutation that splits one part too few
get_slug_split_two(name) ==
    LET base == replace_with_empty(name, MD_SUFFIX)
        parts == split(base, HYPHEN, 2)
    IN IF Len(parts) >= 3 THEN join(HYPHEN, Drop(parts, 2)) ELSE base

\* the mutation that keeps the date prefix
get_slug_keep_date(name) == replace_with_empty(name, MD_SUFFIX)

get_slug_from_filename(name) ==
    LET base == replace_with_empty(name, MD_SUFFIX)
        parts == split(base, HYPHEN, 3)
    IN IF Len(parts) >= 4 THEN join(HYPHEN, Drop(parts, 3)) ELSE base

----------------------------------------------------------------------------
(* Inputs of get_slug_from_filename: every name whose stem has at most      *)
(* MaxParts hyphen-separated parts taken from WordPool, and the two names   *)
(* the documentation gives                                                  *)

W_2025 == <<"2", "0", "2", "5">>
W_11 == <<"1", "1">>
W_05 == <<"0", "5">>
W_post == <<"p", "o", "s", "t">>
W_amdb == <<"a", ".", "m", "d", "b">>

WordPool == {W_2025, W_11, W_05, W_post, W_amdb, <<>>}

EXAMPLE_DATED ==
    <<"2", "0", "2", "5", "-", "1", "1", "-", "0", "5", "-", "f", "i", "r", "s", "t", "-", "p", "o", "s", "t", ".", "m", "d">>
EXAMPLE_DATED_SLUG ==
    <<"f", "i", "r", "s", "t", "-", "p", "o", "s", "t">>
EXAMPLE_UNDATED ==
    <<"n", "o", "-", "d", "a", "t", "e", "-", "p", "r", "e", "f", "i", "x", ".", "m", "d">>
EXAMPLE_UNDATED_SLUG ==
    <<"n", "o", "-", "d", "a", "t", "e", "-", "p", "r", "e", "f", "i", "x">>

Filenames ==
    {join(HYPHEN, ps) \o MD_SUFFIX : ps \in SeqsUpTo(WordPool, MaxParts)}
        \cup {EXAMPLE_DATED, EXAMPLE_UNDATED}

SlugIdle ==
    /\ filename = <<>>
    /\ s_pc = "idle"
    /\ slug = <<>>

SlugInit ==
    /\ filename \in Filenames
    /\ s_pc = "call"
    /\ slug = <<>>

\* lines 38-43
SlugCall ==
    /\ s_pc = "call"
    /\ slug' = get_slug_from_filename(filename)
    /\ s_pc' = "returned"
    /\ UNCHANGED <<filename, parse_vars, build_vars>>

----------------------------------------------------------------------------
(* build_posts: helpers *)

K_title == <<"t", "i", "t", "l", "e">>
K_date == <<"d", "a", "t", "e">>
K_description == <<"d", "e", "s", "c", "r", "i", "p", "t", "i", "o", "n">>
UNTITLED == <<"U", "n", "t", "i", "t", "l", "e", "d">>
HTML_SUFFIX == <<".", "h", "t", "m", "l">>

\* the characters of the file names, in code point order
CodePointOrder ==
    <<"-", ".", "0", "1", "2", "3", "4", "5", "6", "7", "8", "9",
      "a", "b", "c", "d", "e", "f", "g", "h", "i", "j", "k", "l", "m",
      "n", "o", "p", "q", "r", "s", "t", "u", "v", "w", "x", "y", "z">>

ord(c) == CHOOSE i \in 1..Len(CodePointOrder) : CodePointOrder[i] = c

\* a < b on str
StrLess(a, b) ==
    \/ Len(a) < Len(b) /\ SubSeq(b, 1, Len(a)) = a
    \/ \E i \in 1..Min({Len(a), Len(b)}) :
          /\ SubSeq(a, 1, i - 1) = SubSeq(b, 1, i - 1)
          /\ ord(a[i]) < ord(b[i])

\* posts_dir.glob('*.md')
glob_md(names) == {n \in names : endswith(n, MD_SUFFIX)}

\* the mutation that forgets reverse=True
RECURSIVE sorted_ascending(_)
sorted_ascending(S) ==
    IF S = {} THEN <<>>
    ELSE LET m == CHOOSE x \in S : \A y \in S \ {x} : StrLess(x, y)
         IN <<m>> \o sorted_ascending(S \ {m})

\* sorted(..., reverse=True)
RECURSIVE sorted_reverse(_)
sorted_reverse(S) ==
    IF S = {} THEN <<>>
    ELSE LET m == CHOOSE x \in S : \A y \in S \ {x} : StrLess(y, x)
         IN <<m>> \o sorted_reverse(S \ {m})

\* markdown.markdown(body): the external renderer, kept uninterpreted
markdown(text) == [rendered |-> text]

\* the template interpolates title, date and body_html; slug is not used
generate_html_file(title, date, body_html, a_slug) ==
    [doctype |-> "html", title |-> title, date |-> date, article |-> body_html]

\* json.dumps(posts_list, indent=2)
json_dumps(list) == [indent |-> 2, array |-> list]

\* the mutation that writes the index whatever the list holds
AlwaysWriteJson(list) == TRUE

\* if posts_list:
ShouldWriteJson(list) == Len(list) > 0

\* the locals of one loop iteration for the file name with text c
Locals(name, c) ==
    LET r == parse_frontmatter(c)
    IN [title |-> DictGet(r.metadata, K_title, UNTITLED),
        date |-> DictGet(r.metadata, K_date, <<>>),
        description |-> DictGet(r.metadata, K_description, <<>>),
        body_html |-> markdown(r.body),
        slug |-> get_slug_from_filename(name),
        raised |-> r.raised]

NoLocals ==
    [title |-> <<>>, date |-> <<>>, description |-> <<>>,
     body_html |-> markdown(<<>>), slug |-> <<>>, raised |-> FALSE]

PostRecord(l) ==
    [title |-> l.title, date |-> l.date, slug |-> l.slug,
     description |-> l.description]

----------------------------------------------------------------------------
(* Inputs of build_posts: a source directory of at most MaxFiles files with *)
(* names from NamePool and texts from TextPool, and a posts.json that is    *)
(* absent or left by an earlier run                                         *)

F_hi_jan ==
    <<"2", "0", "2", "5", "-", "0", "1", "-", "0", "1", "-", "h", "i", ".", "m", "d">>
F_hi_feb ==
    <<"2", "0", "2", "5", "-", "0", "2", "-", "0", "1", "-", "h", "i", ".", "m", "d">>
F_yo ==
    <<"2", "0", "2", "5", "-", "0", "1", "-", "1", "5", "-", "y", "o", ".", "m", "d">>
F_notes ==
    <<"n", "o", "t", "e", "s", ".", "m", "d">>
F_txt ==
    <<"d", "r", "a", "f", "t", ".", "t", "x", "t">>

NamePool == {F_hi_jan, F_hi_feb, F_yo, F_notes, F_txt}

B_full ==
    <<"-", "-", "-", "\n", "t", "i", "t", "l", "e", ":", " ", "T", "\n", "d", "a", "t", "e", ":", " ", "D", "\n", "d", "e", "s", "c", "r", "i", "p", "t", "i", "o", "n", ":", " ", "X", "\n", "-", "-", "-", "\n", "B">>
B_title ==
    <<"-", "-", "-", "\n", "t", "i", "t", "l", "e", ":", " ", "T", "\n", "-", "-", "-", "\n", "B">>
B_plain ==
    <<"B">>

TextPool == {B_full, B_title, B_plain}

S_old == <<"o", "l", "d">>

StaleJson ==
    json_dumps(<<[title |-> S_old, date |-> <<>>, slug |-> S_old,
                  description |-> <<>>]>>)

Directories ==
    UNION {[names -> TextPool] :
              names \in {N \in SUBSET NamePool : Cardinality(N) <= MaxFiles}}

BuildIdle ==
    /\ posts_dir = EmptyDict
    /\ pc = "idle"
    /\ queue = <<>>
    /\ idx = 0
    /\ cur = <<>>
    /\ local = NoLocals
    /\ posts_list = <<>>
    /\ output_dir = EmptyDict
    /\ posts_json = <<>>
    /\ stdout = <<>>
    /\ opened = <<>>
    /\ written = <<>>
    /\ json_writes = 0
    /\ cause = "none"
    /\ ret = <<>>

BuildInit ==
    /\ posts_dir \in Directories
    /\ pc = "start"
    /\ queue = <<>>
    /\ idx = 0
    /\ cur = <<>>
    /\ local = NoLocals
    /\ posts_list = <<>>
    /\ output_dir = EmptyDict
    /\ posts_json \in {<<>>, <<StaleJson>>}
    /\ stdout = <<>>
    /\ opened = <<>>
    /\ written = <<>>
    /\ json_writes = 0
    /\ cause = "none"
    /\ ret = <<>>

\* where the loop goes after i - 1 files
LoopPc(i, q) == IF i > Len(q) THEN "index" ELSE "read"

----------------------------------------------------------------------------
(* build_posts: steps *)

\* lines 116-126: mkdir, the empty list, the sorted glob
Start ==
    /\ pc = "start"
    /\ queue' = sorted_reverse(glob_md(DOMAIN posts_dir))
    /\ idx' = 1
    /\ pc' = LoopPc(1, queue')
    /\ UNCHANGED <<posts_dir, cur, local, posts_list, output_dir, posts_json,
                   stdout, opened, written, json_writes, cause, ret>>
    /\ UNCHANGED <<parse_vars, slug_vars>>

\* lines 127-128: open and read succeed
ReadOk ==
    /\ pc = "read"
    /\ opened' = Append(opened, queue[idx])
    /\ cur' = posts_dir[queue[idx]]
    /\ pc' = "render"
    /\ UNCHANGED <<posts_dir, queue, idx, local, posts_list, output_dir,
                   posts_json, stdout, written, json_writes, cause, ret>>
    /\ UNCHANGED <<parse_vars, slug_vars>>

\* the mutation that catches the read error and goes on with the next file
ReadFailSkip ==
    /\ pc = "read"
    /\ opened' = Append(opened, queue[idx])
    /\ cause' = "read"
    /\ idx' = idx + 1
    /\ pc' = LoopPc(idx + 1, queue)
    /\ UNCHANGED <<posts_dir, queue, cur, local, posts_list, output_dir,
                   posts_json, stdout, written, json_writes, ret>>
    /\ UNCHANGED <<parse_vars, slug_vars>>

\* lines 127-128: open or read raises, nothing catches it
ReadFail ==
    /\ pc = "read"
    /\ opened' = Append(opened, queue[idx])
    /\ cause' = "read"
    /\ pc' = "aborted"
    /\ UNCHANGED <<posts_dir, queue, idx, cur, local, posts_list, output_dir,
                   posts_json, stdout, written, json_writes, ret>>
    /\ UNCHANGED <<parse_vars, slug_vars>>

\* lines 131-149: parse, render, derive the slug, write the page
WriteHtml ==
    /\ pc = "render"
    /\ LET l == Locals(queue[idx], cur)
           output_file == l.slug \o HTML_SUFFIX
       IN /\ local' = l
          /\ IF l.raised
             THEN /\ pc' = "aborted"
                  /\ cause' = "parse"
                  /\ UNCHANGED <<output_dir, written>>
             ELSE /\ pc' = "append"
                  /\ output_dir' =
                        DictSet(output_dir, output_file,
                                generate_html_file(l.title, l.date, l.body_html, l.slug))
                  /\ written' = Append(written, output_file)
                  /\ UNCHANGED cause
    /\ UNCHANGED <<posts_dir, queue, idx, cur, posts_list, posts_json, stdout,
                   opened, json_writes, ret>>
    /\ UNCHANGED <<parse_vars, slug_vars>>

\* lines 148: the page cannot be opened for writing
WriteHtmlFail ==
    /\ pc = "render"
    /\ local' = Locals(queue[idx], cur)
    /\ pc' = "aborted"
    /\ cause' = "write"
    /\ UNCHANGED <<posts_dir, queue, idx, cur, posts_list, output_dir,
                   posts_json, stdout, opened, written, json_writes, ret>>
    /\ UNCHANGED <<parse_vars, slug_vars>>

\* lines 151-159: the progress line and the record
AppendRecord ==
    /\ pc = "append"
    /\ stdout' = Append(stdout, <<"Built", queue[idx], local.slug \o HTML_SUFFIX>>)
    /\ posts_list' = Append(posts_list, PostRecord(local))
    /\ idx' = idx + 1
    /\ pc' = LoopPc(idx + 1, queue)
    /\ UNCHANGED <<posts_dir, queue, cur, local, output_dir, posts_json,
                   opened, written, json_writes, cause, ret>>
    /\ UNCHANGED <<parse_vars, slug_vars>>

\* lines 162-163 and 106-112: the list is not empty, posts.json is rewritten
WriteIndex ==
    /\ pc = "index"
    /\ ShouldWriteJson(posts_list)
    /\ posts_json' = <<json_dumps(posts_list)>>
    /\ json_writes' = json_writes + 1
    /\ stdout' = Append(stdout, <<"Generated posts.json">>)
    /\ pc' = "summary"
    /\ UNCHANGED <<posts_dir, queue, idx, cur, local, posts_list, output_dir,
                   opened, written, cause, ret>>
    /\ UNCHANGED <<parse_vars, slug_vars>>

\* line 109: posts.json cannot be opened for writing
WriteIndexFail ==
    /\ pc = "index"
    /\ ShouldWriteJson(posts_list)
    /\ pc' = "aborted"
    /\ cause' = "write"
    /\ UNCHANGED <<posts_dir, queue, idx, cur, local, posts_list, output_dir,
                   posts_json, stdout, opened, written, json_writes, ret>>
    /\ UNCHANGED <<parse_vars, slug_vars>>

\* line 162: the list is empty, generate_posts_json is not called
SkipIndex ==
    /\ pc = "index"
    /\ ~ShouldWriteJson(posts_list)
    /\ pc' = "summary"
    /\ UNCHANGED <<posts_dir, queue, idx, cur, local, posts_list, output_dir,
                   posts_json, stdout, opened, written, json_writes, cause, ret>>
    /\ UNCHANGED <<parse_vars, slug_vars>>

\* lines 165-166: the summary line and the return
Finish ==
    /\ pc = "summary"
    /\ stdout' = Append(stdout, <<"Successfully built", Len(posts_list)>>)
    /\ ret' = <<posts_list>>
    /\ pc' = "done"
    /\ UNCHANGED <<posts_dir, queue, idx, cur, local, posts_list, output_dir,
                   posts_json, opened, written, json_writes, cause>>
    /\ UNCHANGED <<parse_vars, slug_vars>>

----------------------------------------------------------------------------
(* Specifications *)

Init == ParseIdle /\ SlugIdle /\ BuildInit

Next ==
    \/ Start
    \/ ReadOk
    \/ ReadFail
    \/ WriteHtml
    \/ WriteHtmlFail
    \/ AppendRecord
    \/ WriteIndex
    \/ WriteIndexFail
    \/ SkipIndex
    \/ Finish

Spec == Init /\ [][Next]_vars

ParseSpecInit == ParseInit /\ SlugIdle /\ BuildIdle

ParseNext == ParseEarlyReturn \/ ParseMatched

SpecParse == ParseSpecInit /\ [][ParseNext]_vars

SlugSpecInit == ParseIdle /\ SlugInit /\ BuildIdle

SlugNext == SlugCall

SpecSlug == SlugSpecInit /\ [][SlugNext]_vars

----------------------------------------------------------------------------
(* Vocabulary of the statements about parse_frontmatter *)

LinesOf(c) == split(c, NL, -1)

\* the first line is --- and a later line is exactly ---
HasDelimitedBlock(c) ==
    LET L == LinesOf(c)
    IN L[1] = DELIM /\ \E j \in 2..Len(L) : L[j] = DELIM

\* the number of the next line that is exactly ---
ClosingLine(c) ==
    LET L == LinesOf(c) IN Min({j \in 2..Len(L) : L[j] = DELIM})

\* the lines between the two delimiter lines
BlockLines(c) == SubSeq(LinesOf(c), 2, ClosingLine(c) - 1)

\* everything after the closing delimiter line
BodyAfter(c) ==
    LET L == LinesOf(c) IN join(NL, SubSeq(L, ClosingLine(c) + 1, Len(L)))

HasColon(line) == COLON \in Range(line)
KeyOf(line) == strip(SubSeq(line, 1, IndexOf(line, COLON) - 1))
ValueOf(line) == strip(Drop(line, IndexOf(line, COLON)))

\* the mapping the lines of a block denote: the last line of a key wins
BlockMapping(ls) ==
    LET with == {i \in 1..Len(ls) : HasColon(ls[i])}
    IN [k \in {KeyOf(ls[i]) : i \in with} |->
            ValueOf(ls[Max({i \in with : KeyOf(ls[i]) = k})])]

\* C1: when the text starts with a --- line and has a later line that is
\* exactly ---, the metadata block is the text between the first --- line and
\* the next --- line (an empty block and a closing --- on the last line
\* included) and the body is everything after that closing line.
C1_SmallestBlock ==
    (p_pc = "returned" /\ HasDelimitedBlock(content)) =>
        /\ matched
        /\ frontmatter_text = join(NL, BlockLines(content))
        /\ body = BodyAfter(content)

\* C8: parse_frontmatter never raises, and a text that does not start with
\* the delimiter line, or has no later closing delimiter line, comes back
\* as empty metadata and the unchanged text.
C8_NoPartialParse ==
    /\ p_pc # "raised"
    /\ (p_pc = "returned" /\ ~HasDelimitedBlock(content)) =>
            /\ ~matched
            /\ metadata = EmptyDict
            /\ body = content

C8_Witness ==
    /\ p_pc = "returned"
    /\ LinesOf(content)[1] = DELIM
    /\ ~HasDelimitedBlock(content)
    /\ \E i \in 2..Len(LinesOf(content)) : HasColon(LinesOf(content)[i])
    /\ metadata = EmptyDict
    /\ body = content

\* C9: for every two-delimiter block the metadata has exactly the keys of the
\* block's lines that contain a colon, each line split at its first colon
\* into a trimmed key and a trimmed value, lines without a colon skipped,
\* the last line of a repeated key kept.
C9_ExactKeys ==
    (p_pc = "returned" /\ HasDelimitedBlock(content)) =>
        metadata = BlockMapping(BlockLines(content))

----------------------------------------------------------------------------
(* Vocabulary of the statements about get_slug_from_filename *)

Digits == {"0", "1", "2", "3", "4", "5", "6", "7", "8", "9"}

\* the name without its trailing .md
Stem(name) == SubSeq(name, 1, Len(name) - Len(MD_SUFFIX))

HyphenPositions(s) == {i \in 1..Len(s) : s[i] = HYPHEN}

\* the position of the n-th hyphen of s
NthHyphen(s, n) ==
    CHOOSE i \in HyphenPositions(s) :
        Cardinality({j \in HyphenPositions(s) : j <= i}) = n

AfterThirdHyphen(s) == Drop(s, NthHyphen(s, 3))

\* s begins with YYYY-MM-DD-
HasDatePrefix(s) ==
    /\ Len(s) >= 11
    /\ \A i \in {1, 2, 3, 4, 6, 7, 9, 10} : s[i] \in Digits
    /\ \A i \in {5, 8, 11} : s[i] = HYPHEN

\* C2: only the trailing .md is removed to obtain the stem; with at least 3
\* hyphens in the stem the slug is the stem's text after the 3rd hyphen,
\* otherwise the whole stem; 2025-11-05-first-post.md gives first-post and
\* no-date-prefix.md gives no-date-prefix.
C2_SlugOfStem ==
    s_pc = "returned" =>
        /\ slug = IF Cardinality(HyphenPositions(Stem(filename))) >= 3
                  THEN AfterThirdHyphen(Stem(filename))
                  ELSE Stem(filename)
        /\ filename = EXAMPLE_DATED => slug = EXAMPLE_DATED_SLUG
        /\ filename = EXAMPLE_UNDATED => slug = EXAMPLE_UNDATED_SLUG

\* C4 as stated: a name whose stem does not begin with a well-formed
\* YYYY-MM-DD- prefix gets its full stem as slug.
C4_Original ==
    (s_pc = "returned" /\ ~HasDatePrefix(Stem(filename))) =>
        slug = Stem(filename)

\* C4 as amended: the slug is the whole base (the name with .md removed) only
\* when the base has fewer than 3 hyphens; a base with 3 or more hyphens
\* loses everything up to its 3rd hyphen, date or not.
C4_HyphenCountDecides ==
    s_pc = "returned" =>
        LET base == replace_with_empty(filename, MD_SUFFIX)
        IN slug = IF Cardinality(HyphenPositions(base)) < 3
                  THEN base
                  ELSE AfterThirdHyphen(base)

C4_Witness ==
    /\ s_pc = "returned"
    /\ ~HasDatePrefix(Stem(filename))
    /\ Cardinality(HyphenPositions(Stem(filename))) >= 3
    /\ slug = AfterThirdHyphen(Stem(filename))
    /\ slug # Stem(filename)

----------------------------------------------------------------------------
(* Vocabulary of the statements about build_posts *)

Sources == glob_md(DOMAIN posts_dir)

\* the name follows YYYY-MM-DD-title.md
Conventional(name) ==
    /\ endswith(name, MD_SUFFIX)
    /\ HasDatePrefix(Stem(name))
    /\ Len(Stem(name)) > 11

\* the title words of a conventional name
TitlePart(name) == Drop(Stem(name), 11)

Posts == 1..Len(posts_list)

PageOf(i) == posts_list[i].slug \o HTML_SUFFIX

\* the page the i-th processed file renders to
RenderOf(i) ==
    LET r == parse_frontmatter(posts_dir[opened[i]])
    IN generate_html_file(posts_list[i].title, posts_list[i].date,
                          markdown(r.body), posts_list[i].slug)

\* C3 as stated: after a successful run over conventionally named files the
\* slugs are pairwise distinct and there is one HTML file per post.
C3_Original ==
    (pc = "done" /\ \A n \in Sources : Conventional(n)) =>
        /\ \A i, j \in Posts : i # j => posts_list[i].slug # posts_list[j].slug
        /\ Cardinality(DOMAIN output_dir) = Cardinality(Sources)

\* C3 as amended: after a successful run over conventionally named files
\* there is one HTML file per distinct slug; posts whose names differ only
\* in the date prefix share a slug, and the file of a shared slug holds the
\* page of the post processed last.
C3_OnePagePerSlug ==
    (pc = "done" /\ \A n \in Sources : Conventional(n)) =>
        /\ Len(posts_list) = Cardinality(Sources)
        /\ Len(opened) = Len(posts_list)
        /\ DOMAIN output_dir = {PageOf(i) : i \in Posts}
        /\ \A i, j \in Posts :
              TitlePart(opened[i]) = TitlePart(opened[j])
                  => posts_list[i].slug = posts_list[j].slug
        /\ \A i \in Posts :
              LET last == Max({j \in Posts : PageOf(j) = PageOf(i)})
              IN output_dir[PageOf(i)] = RenderOf(last)

C3_Witness ==
    /\ pc = "done"
    /\ \A n \in Sources : Conventional(n)
    /\ \E i, j \in Posts :
          /\ i < j
          /\ posts_list[i].slug = posts_list[j].slug
          /\ RenderOf(i) # RenderOf(j)
          /\ output_dir[PageOf(i)] = RenderOf(j)
    /\ Cardinality(DOMAIN output_dir) < Cardinality(Sources)

\* C5: after a successful run over n >= 1 source files posts.json holds
\* exactly n records, one per source file, in strictly descending file name
\* order, the order in which the pages were written; the former posts.json
\* is gone.
C5_IndexOrder ==
    (pc = "done" /\ Sources # {}) =>
        /\ posts_json = <<json_dumps(posts_list)>>
        /\ Len(posts_list) = Cardinality(Sources)
        /\ Len(opened) = Len(posts_list)
        /\ Len(written) = Len(posts_list)
        /\ Range(opened) = Sources
        /\ \A i, j \in Posts : i < j => StrLess(opened[j], opened[i])
        /\ \A i \in Posts :
              /\ posts_list[i] = PostRecord(Locals(opened[i], posts_dir[opened[i]]))
              /\ written[i] = PageOf(i)

C5_Witness ==
    /\ pc = "done"
    /\ Len(posts_list) >= 3
    /\ posts_json = <<json_dumps(posts_list)>>
    /\ StrLess(opened[3], opened[2])
    /\ StrLess(opened[2], opened[1])

\* C6: a completed run has written posts.json exactly when it processed at
\* least one file; with no source file it writes no page, leaves posts.json
\* as it was, does not abort and returns the empty list.
C6_EmptyRun ==
    /\ pc = "done" => (json_writes > 0 <=> Len(posts_list) > 0)
    /\ Sources = {} =>
          /\ pc \in {"start", "index", "summary", "done"}
          /\ written = <<>>
          /\ output_dir = EmptyDict
          /\ json_writes = 0
          /\ posts_json \in {<<>>, <<StaleJson>>}
          /\ pc = "done" => ret = << <<>> >>

C6_Witness ==
    /\ pc = "done"
    /\ Sources = {}
    /\ posts_json = <<StaleJson>>
    /\ ret = << <<>> >>

\* C7: when reading the k-th file fails the run is over: no later file is
\* opened, files k and later get no page, posts.json is not written, and the
\* pages of the first k-1 files stay.
C7_ReadFailureAborts ==
    cause = "read" =>
        LET k == Len(opened)
        IN /\ pc = "aborted"
           /\ k >= 1
           /\ opened = SubSeq(queue, 1, k)
           /\ Len(written) = k - 1
           /\ Len(posts_list) = k - 1
           /\ \A i \in 1..(k - 1) :
                 /\ written[i] = get_slug_from_filename(queue[i]) \o HTML_SUFFIX
                 /\ written[i] \in DOMAIN output_dir
           /\ DOMAIN output_dir = Range(written)
           /\ json_writes = 0
           /\ ret = <<>>

C7_Witness ==
    /\ cause = "read"
    /\ pc = "aborted"
    /\ Len(opened) = 2
    /\ Len(queue) = 3
    /\ Len(written) = 1
    /\ json_writes = 0

\* C10: every record of the post list has the slug get_slug_from_filename
\* gives for its file, which names its page, and the title, date and
\* description of the parsed frontmatter, or Untitled, empty and empty where
\* the key is absent; the record is appended after the page is written.
C10_RecordEchoesFrontmatter ==
    /\ Len(posts_list) <= Len(written)
    /\ pc = "append" => Len(written) = Len(posts_list) + 1
    /\ \A i \in Posts :
          LET name == opened[i]
              md == parse_frontmatter(posts_dir[name]).metadata
              r == posts_list[i]
          IN /\ r.slug = get_slug_from_filename(name)
             /\ written[i] = r.slug \o HTML_SUFFIX
             /\ written[i] \in DOMAIN output_dir
             /\ r.title = IF K_title \in DOMAIN md THEN md[K_title] ELSE UNTITLED
             /\ r.date = IF K_date \in DOMAIN md THEN md[K_date] ELSE <<>>
             /\ r.description =
                   IF K_description \in DOMAIN md THEN md[K_description] ELSE <<>>

C10_Witness ==
    /\ pc = "done"
    /\ \E i, j \in Posts :
          /\ posts_dir[opened[i]] = B_plain
          /\ posts_list[i].title = UNTITLED
          /\ posts_dir[opened[j]] = B_full
          /\ posts_list[j].title = <<"T">>
          /\ posts_list[j].date = <<"D">>
          /\ posts_list[j].description = <<"X">>

====
